---- MODULE Spec2Model ----
(***************************************************************************)
(* A model of tsurust's shared rule engine: the player hand                *)
(* (common/src/player_state.rs), the game definition and its erased form   *)
(* (common/src/game.rs).                                                   *)
(***************************************************************************)
EXTENDS Integers, Sequences, FiniteSets, TLC

(***************************************************************************)
(* Bounds of the model.                                                    *)
(***************************************************************************)
\* add_tile calls made on one hand
MaxAdds == 3
\* largest player count handed to new_state
MaxPlayers == 2
\* registered variants of one erased family
NumVariants == 2

(***************************************************************************)
(* Values.                                                                 *)
(***************************************************************************)
\* The Kind universe: opaque keys.  kC is a kind of no board of the model.
Kinds == {"kA", "kB", "kC"}
\* Distinguishes the tiles of one kind (their connection pattern).
TileIds == {1, 2}
AllTileValues == [kind : Kinds, id : TileIds]

\* Tile::kind()
TileKind(t) == t.kind

\* The outcome of a call: a returned value, or a panic with its message.
Ok(v) == [tag |-> "ok", val |-> v]
Panic(msg) == [tag |-> "panic", msg |-> msg]
\* The recoverable error value of a Result-returning call.
Err(e) == [tag |-> "err", err |-> e]
Unit == "()"

\* Board::all_kinds()
all_kinds(b) == b.all_kinds
\* Game::board()
board(g) == g.board

(***************************************************************************)
(* Sequence helpers, as Vec behaves.                                       *)
(***************************************************************************)
\* Vec::remove(index), 0-based, index < len
VecRemove(s, i) == [j \in 1..(Len(s) - 1) |-> IF j <= i THEN s[j] ELSE s[j + 1]]

\* Vec::swap_remove(index): the last element takes the removed one's place
VecSwapRemove(s, i) ==
  [j \in 1..(Len(s) - 1) |-> IF j = i + 1 THEN s[Len(s)] ELSE s[j]]

RECURSIVE Flatten(_)
\* flat_map over a sequence of sequences
Flatten(ss) == IF ss = <<>> THEN <<>> ELSE Head(ss) \o Flatten(Tail(ss))

RECURSIVE SumOver(_, _)
SumOver(f, S) ==
  IF S = {} THEN 0
  ELSE LET x == CHOOSE y \in S : TRUE IN f[x] + SumOver(f, S \ {x})

\* every ordering of a finite set, as the iteration orders of a hash map
Orders(S) ==
  {o \in [1..Cardinality(S) -> S] : \A i, j \in 1..Cardinality(S) : i # j => o[i] # o[j]}

(***************************************************************************)
(* PathGame and the erased games.                                          *)
(***************************************************************************)
\* Counts of the tile economies of the model.
Counts == {0, 5}
\* Ports of the rectangular board: <<cell, offset along the edge>>.
PortA == <<<<0, 0>>, <<1, 0>>>>
PortB == <<<<0, 0>>, <<0, 1>>>>

\* Iterator::collect into a hash map: a later pair of a kind replaces an earlier
Collect(pairs) ==
  [k \in {pairs[i][1] : i \in DOMAIN pairs} |->
     pairs[CHOOSE i \in DOMAIN pairs :
             /\ pairs[i][1] = k
             /\ \A j \in DOMAIN pairs : pairs[j][1] = k => j <= i][2]]

\* PathGame::new
PathGame_new(b, sp, pairs) ==
  [board |-> b, start_ports |-> sp, tiles_per_player |-> Collect(pairs)]

\* PathGame::start_ports
start_ports(g) == g.start_ports

\* a count of 0 for a kind outside the mapping
num_tiles_per_player_default(g, k) ==
  IF k \in DOMAIN g.tiles_per_player THEN Ok(g.tiles_per_player[k]) ELSE Ok(0)

\* PathGame::num_tiles_per_player: self.tiles_per_player[kind]
num_tiles_per_player(g, k) ==
  IF k \in DOMAIN g.tiles_per_player
    THEN Ok(g.tiles_per_player[k])
    ELSE Panic("key not found")

\* The variant of the one registered game: BaseGame::Normal.
Normal == 1
\* The registered variants of an erased family.
Variants == 1..NumVariants

\* WrapBase::wrap_base: the value under its variant's tag
wrap_base(family, tag, v) == [family |-> family, tag |-> tag, val |-> v]

\* the stored tag not compared
unwrap_base_ref_any(tag, b) == Ok(b.val)

\* WrapBase::unwrap_base_ref: the value when the stored tag is the expected
\* one, and no value otherwise
unwrap_base_ref(tag, b) ==
  IF b.tag = tag THEN Ok(b.val) ELSE Panic("wrong variant")

\* From<GameState<G>> for BaseGameState, From<G::Board> for BaseBoard
into_base(family, tag, v) == wrap_base(family, tag, v)

\* the r-th dealt tile of kind k
DealtTile(k, r) == [kind |-> k, id |-> ((r - 1) % Cardinality(TileIds)) + 1]

\* GameState::new: one hand per player, holding of every kind of the board
\* the game's num_tiles_per_player tiles; nothing placed, first player's turn
GameState_new(g, n) ==
  IF \E k \in all_kinds(board(g)) : num_tiles_per_player(g, k).tag = "panic"
    THEN Panic("key not found")
    ELSE Ok([hands |-> [p \in 1..n |->
                          [k \in all_kinds(board(g)) |->
                             [r \in 1..num_tiles_per_player(g, k).val |-> DealtTile(k, r)]]],
             placed |-> <<>>,
             tokens |-> <<>>,
             eliminated |-> {},
             turn |-> 0,
             game_over |-> FALSE])

\* the result of f, wrapped when f returned
Wrapped(family, tag, r) ==
  IF r.tag = "ok" THEN Ok(wrap_base(family, tag, r.val)) ELSE r

\* one player too many
BaseGame_new_state_more(bg, n) ==
  Wrapped("BaseGameState", bg.tag, GameState_new(bg.val, n + 1))

\* the player count dropped: a state for one player
BaseGame_new_state_single(bg, n) ==
  Wrapped("BaseGameState", bg.tag, GameState_new(bg.val, 1))

\* BaseGame::new_state: match self { Normal(s) => GameState::new(s, n).wrap_base() }
BaseGame_new_state(bg, n) ==
  Wrapped("BaseGameState", bg.tag, GameState_new(bg.val, n))

\* BaseGame::board: match self { Normal(s) => s.board().clone().wrap_base() }
BaseGame_board(bg) == Ok(wrap_base("BaseBoard", bg.tag, board(bg.val)))

\* GenericGame::new_state for a concrete game: GameState::new(self, n).into()
GenericGame_new_state(g, n) ==
  LET r == GameState_new(g, n)
  IN IF r.tag = "ok" THEN Ok(into_base("BaseGameState", Normal, r.val)) ELSE r

\* GenericGame::board for a concrete game: self.board().clone().into()
GenericGame_board(g) == Ok(into_base("BaseBoard", Normal, board(g)))

(***************************************************************************)
(* Positions on the rectangular board.  A coordinate is a fraction in      *)
(* lowest terms <<numerator, denominator>>, a point a pair of coordinates. *)
(***************************************************************************)
RECURSIVE Gcd(_, _)
Gcd(a, b) == IF b = 0 THEN a ELSE Gcd(b, a % b)

Frac(n, d) == <<n \div Gcd(n, d), d \div Gcd(n, d)>>
\* u32 as f64
cast(n) == <<n, 1>>
FracAdd(a, b) == Frac(a[1] * b[2] + b[1] * a[2], a[2] * b[2])
FracDiv(a, n) == Frac(a[1], a[2] * n)
Half == Frac(1, 2)

ports_per_edge(b) == b.ports_per_edge

\* BoardExt::port_position for RectangleBoard:
\* port.0.cast() + port.1.cast() / (self.ports_per_edge() + 1)
port_position(b, port) ==
  [c \in 1..2 |-> FracAdd(cast(port[1][c]), FracDiv(cast(port[2][c]), ports_per_edge(b) + 1))]

\* the location's corner: the half cell not added
loc_position_corner(b, loc) == [c \in 1..2 |-> cast(loc[c])]

\* BoardExt::loc_position for RectangleBoard: loc.cast() + vector![0.5, 0.5]
loc_position(b, loc) == [c \in 1..2 |-> FracAdd(cast(loc[c]), Half)]

\* BaseBoardExt::loc_position for BaseBoard:
\* match self { Normal(b) => b.loc_position(TLoc::unwrap_base_ref(loc)) }
BaseBoard_loc_position(bb, bl) ==
  LET l == unwrap_base_ref(bb.tag, bl)
  IN IF l.tag = "ok" THEN Ok(loc_position(bb.val, l.val)) ELSE l

\* BaseBoardExt::port_position for BaseBoard
BaseBoard_port_position(bb, bp) ==
  LET q == unwrap_base_ref(bb.tag, bp)
  IN IF q.tag = "ok" THEN Ok(port_position(bb.val, q.val)) ELSE q

\* the pairs in the opposite order
start_ports_and_positions_rev(g) ==
  [i \in DOMAIN start_ports(g) |->
     LET port == start_ports(g)[Len(start_ports(g)) + 1 - i]
     IN <<port, port_position(board(g), port)>>]

\* GameExt::start_ports_and_positions:
\* self.start_ports().into_iter().map(|port| (port.clone(), self.board().port_position(&port)))
start_ports_and_positions(g) ==
  [i \in DOMAIN start_ports(g) |->
     LET port == start_ports(g)[i]
     IN <<port, port_position(board(g), port)>>]

\* BaseGameExt::start_ports_and_positions for BaseGame: match self { Normal(g) =>
\* g.start_ports_and_positions().into_iter().map(|(port, pos)| (port.wrap_base(), pos)) }
BaseGame_start_ports_and_positions(bg) ==
  LET r == start_ports_and_positions(bg.val)
  IN [i \in DOMAIN r |-> <<wrap_base("BasePort", bg.tag, r[i][1]), r[i][2]>>]

(***************************************************************************)
(* The 4-edged regular tile family and its rotations.                      *)
(***************************************************************************)
None == [tag |-> "none"]
Some(v) == [tag |-> "some", val |-> v]

\* RegularTile<4>: the edges of the registered game's tiles
EDGES == 4

\* Tile::num_ports
num_ports(t) == EDGES * t.ports_per_edge

\* every port's successor, not its partner
output_next(t, p) == (t.conn[p] + 1) % num_ports(t)

\* Tile::output: the port connected to port p
output(t, p) == t.conn[p]

RECURSIVE Matchings(_)
\* the ways to pair up the ports of S, each a map port -> partner
Matchings(S) ==
  IF S = {} THEN {<<>>}
  ELSE LET a == CHOOSE x \in S : \A y \in S : x <= y
       IN UNION {{(a :> b) @@ (b :> a) @@ m : m \in Matchings(S \ {a, b})} : b \in S \ {a}}

\* Board::tile_config of the rectangular board
tile_config(b) == ports_per_edge(b)

\* Tile::all for RegularTile<4>: every tile of the configuration
RegularTile_all(cfg) ==
  {[kind |-> "kA", ports_per_edge |-> cfg, conn |-> m, visible |-> TRUE] :
     m \in Matchings(0..(EDGES * cfg - 1))}

\* Game::all_tiles: Self::Tile::all(self.board().tile_config())
all_tiles(g) == RegularTile_all(tile_config(board(g)))

\* GAct: the identity and compose of the rotations of RegularTile<4>
identity == 0
compose(a, b) == (a + b) % EDGES

\* Tile::rotation_action: the rotation by num_times steps
rotation_action(t, num_times) == num_times % EDGES

\* Tile::apply_action: the ports moved round by a * ports_per_edge
apply_action(t, a) ==
  LET n == num_ports(t)
      by == a * t.ports_per_edge
  IN [t EXCEPT !.conn = [p \in DOMAIN t.conn |-> (t.conn[(p - by) % n] + by) % n]]

\* BaseTile::rotation_action, BaseGAct::compose: dispatch on the variant
BaseTile_rotation_action(bt, num_times) ==
  wrap_base("BaseGAct", bt.tag, rotation_action(bt.val, num_times))
BaseGAct_compose(a, b) ==
  LET r == unwrap_base_ref(a.tag, b)
  IN IF r.tag = "ok" THEN Ok(wrap_base("BaseGAct", a.tag, compose(a.val, r.val))) ELSE r

\* The buttons of GameWorld::new.
rotate_ccw == [num_times |-> -1]
rotate_cw == [num_times |-> 1]
\* the buttons in the order of their entities
Buttons == <<rotate_ccw, rotate_cw>>

\* every button rotates by one step clockwise
ButtonAction_group_action_cw(btn, tile) == BaseTile_rotation_action(tile, 1)

\* ButtonAction::group_action: Rotation{num_times} => tile.rotation_action(num_times)
ButtonAction_group_action(btn, tile) == BaseTile_rotation_action(tile, btn.num_times)

\* only the first clicked button composed
ComposeClicked_first(action, tile, btns) ==
  IF btns = <<>> THEN Ok(action)
  ELSE BaseGAct_compose(action, ButtonAction_group_action(Head(btns), tile))

RECURSIVE ComposeClicked(_, _, _)
\* SelectTileSystem::run, the group action edited: for each clicked button,
\* in the order of the join, action = action.compose(&button.group_action(tile))
ComposeClicked(action, tile, btns) ==
  IF btns = <<>> THEN Ok(action)
  ELSE LET r == BaseGAct_compose(action, ButtonAction_group_action(Head(btns), tile))
       IN IF r.tag = "ok" THEN ComposeClicked(r.val, tile, Tail(btns)) ELSE r

\* TileExt::render for RegularTile: the paths drawn, each from a port's point
\* to the point of its output, both indexed in the EDGES * ports_per_edge points
TileRender(t) ==
  IF ~t.visible THEN Ok("hidden")
  ELSE LET connections == [s \in 0..(num_ports(t) - 1) |-> output(t, s)]
           n_pts == EDGES * t.ports_per_edge
       IN IF \E s \in DOMAIN connections : connections[s] \notin 0..(n_pts - 1)
            THEN Panic("index out of bounds")
            ELSE Ok({<<s, connections[s]>> : s \in DOMAIN connections})

(***************************************************************************)
(* Colliders and the GameWorld of the client.                              *)
(***************************************************************************)
\* Collider::new
Collider_new ==
  [hovered |-> FALSE, clicked |-> FALSE, hovered_raw |-> FALSE, clicked_raw |-> FALSE]

\* the listeners Collider::new adds to the element
mouseover_listener(c) == [c EXCEPT !.hovered_raw = TRUE]
mouseout_listener(c) == [c EXCEPT !.hovered_raw = FALSE]
click_listener(c) == [c EXCEPT !.clicked_raw = TRUE]

\* Collider::clicked
clicked(c) == c.clicked

\* the raw flag read and left set
ColliderInputSystem_run_sticky(cs) ==
  [i \in DOMAIN cs |->
     [cs[i] EXCEPT !.hovered = cs[i].hovered_raw, !.clicked = cs[i].clicked_raw]]

\* ColliderInputSystem::run: for each collider, hovered = hovered_raw.get(),
\* clicked = clicked_raw.get(), clicked_raw.set(false)
ColliderInputSystem_run(cs) ==
  [i \in DOMAIN cs |->
     [cs[i] EXCEPT !.hovered = cs[i].hovered_raw,
                   !.clicked = cs[i].clicked_raw,
                   !.clicked_raw = FALSE]]

\* The states of the application.
AppStates == {"EnterUsername", "Lobby", "InGame"}

\* GameWorld::new: the state present, no id given out
GameWorld_new == [state |-> Some("EnterUsername"), id_counter |-> 0]

\* Option::take: the value moved out, None left behind
take(w) == [taken |-> w.state, world |-> [w EXCEPT !.state = None]]

\* Option::expect
expect(opt, msg) == IF opt.tag = "some" THEN Ok(opt.val) ELSE Panic(msg)

\* the new state not put back
GameWorld_store_dropped(w, next) == w

\* self.state = Some(<the state the transition returned>)
GameWorld_store(w, next) == [w EXCEPT !.state = Some(next)]

(***************************************************************************)
(* Models and the order of their elements.  The document is a map from a   *)
(* parent element's id to the ids of its children, in order; an element    *)
(* that backs no Model has a negative id.                                  *)
(***************************************************************************)
\* Model::ORDER_TILE, Model::ORDER_TILE_HOVER, Collider::ORDER_TILE_LOC
ORDER_TILE == 1
ORDER_TILE_HOVER == 3
ORDER_TILE_LOC == 1073741824

\* the sequence without its elements equal to x
Without(seq, x) == SelectSeq(seq, LAMBDA y : y # x)

\* Element::parent_element of the element with the id
parent_element(d, id) == CHOOSE p \in DOMAIN d : \E i \in DOMAIN d[p] : d[p][i] = id

\* Model::new: the element gets the counter as id, the counter moves on, the
\* element becomes the parent's last child
Model_new(d, counter, order, parent) ==
  [dom |-> [d EXCEPT ![parent] = Append(@, counter)],
   id_counter |-> counter + 1,
   model |-> [id |-> counter, order |-> order, order_changed |-> TRUE]]

\* Drop for Model: the element removed from the document
Model_drop(d, m) == [p \in DOMAIN d |-> Without(d[p], m.id)]

\* the values left as they are
sort_by_key_not(values) == values

RECURSIVE sort_by_key(_)
\* sort_by_key on the order: a stable sort
sort_by_key(values) ==
  IF values = <<>> THEN <<>>
  ELSE LET rest == sort_by_key(SubSeq(values, 1, Len(values) - 1))
           x == values[Len(values)]
           n == Cardinality({i \in DOMAIN rest : rest[i].order <= x.order})
       IN SubSeq(rest, 1, n) \o <<x>> \o SubSeq(rest, n + 1, Len(rest))

RECURSIVE Reappend(_, _)
\* for each value in turn: parent.remove_child(elem), parent.append_child(node)
Reappend(children, values) ==
  IF values = <<>> THEN children
  ELSE Reappend(Append(Without(children, Head(values).id), Head(values).id), Tail(values))

\* SvgOrderSystem::run: the joined models grouped by parent; a group with a
\* changed order is sorted, its elements are moved, in that order, to the end
\* of the parent, and its flags are cleared
SvgOrderSystem_run(d, ms) ==
  LET slots == SelectSeq([e \in 1..Len(ms) |-> e], LAMBDA e : ms[e].tag = "some")
      group(p) == SelectSeq(slots, LAMBDA e : parent_element(d, ms[e].val.id) = p)
      changed(p) == \E i \in DOMAIN group(p) : ms[group(p)[i]].val.order_changed
      values(p) == sort_by_key([i \in DOMAIN group(p) |-> ms[group(p)[i]].val])
  IN [dom |-> [p \in DOMAIN d |-> IF changed(p) THEN Reappend(d[p], values(p)) ELSE d[p]],
      models |-> [e \in DOMAIN ms |->
                    IF ms[e].tag = "some" /\ changed(parent_element(d, ms[e].val.id))
                      THEN Some([ms[e].val EXCEPT !.order_changed = FALSE])
                      ELSE ms[e]]]

(***************************************************************************)
(* PlayerState: tiles is a map kind -> sequence of tiles.                  *)
(***************************************************************************)
\* PlayerState::new: one empty list per kind of the game's board
PlayerState_new(g) == [k \in all_kinds(board(g)) |-> <<>>]

\* a default of 0 for a kind without an entry
num_tiles_by_kind_default(h, k) ==
  IF k \in DOMAIN h THEN Ok(Len(h[k])) ELSE Ok(0)

\* PlayerState::num_tiles_by_kind: self.tiles[kind].len()
num_tiles_by_kind(h, k) ==
  IF k \in DOMAIN h THEN Ok(Len(h[k])) ELSE Panic("key not found")

\* the list of the kind replaced instead of pushed to
add_tile_overwrite(h, t) ==
  IF TileKind(t) \in DOMAIN h
    THEN [hand |-> [h EXCEPT ![TileKind(t)] = <<t>>], ret |-> Ok(Unit)]
    ELSE [hand |-> h, ret |-> Panic("Every kind should have a tile list")]

\* the tile inserted at the front of its list
add_tile_front(h, t) ==
  IF TileKind(t) \in DOMAIN h
    THEN [hand |-> [h EXCEPT ![TileKind(t)] = <<t>> \o @], ret |-> Ok(Unit)]
    ELSE [hand |-> h, ret |-> Panic("Every kind should have a tile list")]

\* PlayerState::add_tile: get_mut(&tile.kind()).expect(..).push(tile)
add_tile(h, t) ==
  IF TileKind(t) \in DOMAIN h
    THEN [hand |-> [h EXCEPT ![TileKind(t)] = Append(@, t)], ret |-> Ok(Unit)]
    ELSE [hand |-> h, ret |-> Panic("Every kind should have a tile list")]

\* swap_remove in place of remove
remove_tile_swap(h, k, i) ==
  IF k \notin DOMAIN h
    THEN [hand |-> h, ret |-> Panic("Every kind should have a tile list")]
  ELSE IF i >= Len(h[k])
    THEN [hand |-> h, ret |-> Panic("removal index should be < len")]
  ELSE [hand |-> [h EXCEPT ![k] = VecSwapRemove(@, i)], ret |-> Ok(h[k][i + 1])]

\* the index clamped to the last tile of the list
remove_tile_clamped(h, k, i) ==
  IF k \notin DOMAIN h
    THEN [hand |-> h, ret |-> Panic("Every kind should have a tile list")]
  ELSE IF Len(h[k]) = 0
    THEN [hand |-> h, ret |-> Panic("removal index should be < len")]
  ELSE LET c == IF i >= Len(h[k]) THEN Len(h[k]) - 1 ELSE i
       IN [hand |-> [h EXCEPT ![k] = VecRemove(@, c)], ret |-> Ok(h[k][c + 1])]

\* PlayerState::remove_tile: get_mut(kind).expect(..).remove(index as usize);
\* Vec::remove panics, before it changes the list, when index >= len
remove_tile(h, k, i) ==
  IF k \notin DOMAIN h
    THEN [hand |-> h, ret |-> Panic("Every kind should have a tile list")]
  ELSE IF i >= Len(h[k])
    THEN [hand |-> h, ret |-> Panic("removal index should be < len")]
  ELSE [hand |-> [h EXCEPT ![k] = VecRemove(@, i)], ret |-> Ok(h[k][i + 1])]

\* the lists cloned, not taken
remove_all_tiles_clone(h, order) ==
  [hand |-> h, ret |-> Ok(Flatten([i \in 1..Len(order) |-> h[order[i]]]))]

\* the map drained, entries included
remove_all_tiles_drain(h, order) ==
  [hand |-> <<>>, ret |-> Ok(Flatten([i \in 1..Len(order) |-> h[order[i]]]))]

\* PlayerState::remove_all_tiles: values_mut().flat_map(|v| take(v)).collect_vec();
\* order is the map's iteration order over its kinds
remove_all_tiles(h, order) ==
  [hand |-> [k \in DOMAIN h |-> <<>>],
   ret |-> Ok(Flatten([i \in 1..Len(order) |-> h[order[i]]]))]

\* number of tiles held, over all kinds
Total(h) == SumOver([k \in DOMAIN h |-> Len(h[k])], DOMAIN h)

(***************************************************************************)
(* GameState: the session state and its validated mutations.  The path     *)
(* resolution after a placement is left open by the design: its outcome,   *)
(* the players it eliminates, is any set of players still in the game.     *)
(***************************************************************************)
\* the tile locations of a rectangular board
Locs(b) == (0..(b.width - 1)) \X (0..(b.height - 1))

\* a Response that carries a rejection
Rejected(why) == [tag |-> "rejected", why |-> why]

Players(s) == DOMAIN s.hands
Alive(s) == Players(s) \ s.eliminated
\* every player still in the game has a token on the board
TokensPlaced(s) == Alive(s) \subseteq DOMAIN s.tokens
\* the player whose turn it is (the turn pointer counts from 0)
TurnPlayer(s) == s.turn + 1

\* the termination predicate: the tokens are placed and at most one player
\* is left
GameOver(s, elim) == TokensPlaced(s) /\ Cardinality(Players(s) \ elim) <= 1

\* GameState::game_over
game_over(s) == s.game_over

\* the turn pointer after a move, with elim the eliminated players: the next
\* player still in the game, in cyclic order
NextTurn(s, elim) ==
  LET n == Cardinality(Players(s))
      ahead == {d \in 1..n : (((s.turn + d) % n) + 1) \notin elim}
  IN IF ahead = {} THEN s.turn
     ELSE (s.turn + (CHOOSE d \in ahead : \A e \in ahead : d <= e)) % n

\* place a token on a start port: the state after it, or a rejection
place_token(g, s, p, port) ==
  IF p \notin Alive(s) THEN [state |-> s, resp |-> Rejected("no such player")]
  ELSE IF TurnPlayer(s) # p THEN [state |-> s, resp |-> Rejected("wrong turn")]
  ELSE IF p \in DOMAIN s.tokens THEN [state |-> s, resp |-> Rejected("token placed")]
  ELSE IF \A i \in DOMAIN start_ports(g) : start_ports(g)[i] # port
    THEN [state |-> s, resp |-> Rejected("illegal port")]
  ELSE IF \E q \in DOMAIN s.tokens : s.tokens[q] = port
    THEN [state |-> s, resp |-> Rejected("port taken")]
  ELSE LET t == [s EXCEPT !.tokens = (p :> port) @@ s.tokens,
                          !.turn = NextTurn(s, s.eliminated)]
       IN [state |-> [t EXCEPT !.game_over = GameOver(t, t.eliminated)],
           resp |-> Ok(Unit)]

\* the hands after the players of gone left the game: remove_all_tiles each
HandsWithout(hands, gone) ==
  [q \in DOMAIN hands |->
     IF q \in gone
       THEN remove_all_tiles(hands[q], CHOOSE o \in Orders(DOMAIN hands[q]) : TRUE).hand
       ELSE hands[q]]

\* the eliminated players replaced by those of the last move
ApplyPlacementForgetful(s, p, r, loc, gone) ==
  LET t == [s EXCEPT !.hands = HandsWithout([s.hands EXCEPT ![p] = r.hand], gone),
                     !.placed = (loc :> r.ret.val) @@ s.placed,
                     !.eliminated = gone,
                     !.turn = NextTurn(s, gone)]
  IN [t EXCEPT !.game_over = GameOver(t, gone)]

\* the move applied: the tile leaves the hand for the location, the players
\* of gone are eliminated for good, the turn advances
ApplyPlacement(s, p, r, loc, gone) ==
  LET elim == s.eliminated \cup gone
      t == [s EXCEPT !.hands = HandsWithout([s.hands EXCEPT ![p] = r.hand], gone),
                     !.placed = (loc :> r.ret.val) @@ s.placed,
                     !.eliminated = elim,
                     !.turn = NextTurn(s, elim)]
  IN [t EXCEPT !.game_over = GameOver(t, elim)]

\* the occupied location not checked: the tile there is replaced
place_tile_overwrite(g, s, p, k, i, loc, gone) ==
  IF p \notin Alive(s) THEN [state |-> s, resp |-> Rejected("no such player")]
  ELSE IF ~TokensPlaced(s) THEN [state |-> s, resp |-> Rejected("tokens first")]
  ELSE IF TurnPlayer(s) # p THEN [state |-> s, resp |-> Rejected("wrong turn")]
  ELSE IF loc \notin Locs(board(g)) THEN [state |-> s, resp |-> Rejected("illegal location")]
  ELSE IF k \notin DOMAIN s.hands[p] \/ i >= Len(s.hands[p][k])
    THEN [state |-> s, resp |-> Rejected("tile not held")]
  ELSE [state |-> ApplyPlacement(s, p, remove_tile(s.hands[p], k, i), loc, gone),
        resp |-> Ok(Unit)]

\* place the tile at index i of kind k of player p's hand at loc: the state
\* after the whole move, or a rejection and the state as it was
place_tile(g, s, p, k, i, loc, gone) ==
  IF p \notin Alive(s) THEN [state |-> s, resp |-> Rejected("no such player")]
  ELSE IF ~TokensPlaced(s) THEN [state |-> s, resp |-> Rejected("tokens first")]
  ELSE IF TurnPlayer(s) # p THEN [state |-> s, resp |-> Rejected("wrong turn")]
  ELSE IF loc \notin Locs(board(g)) THEN [state |-> s, resp |-> Rejected("illegal location")]
  ELSE IF loc \in DOMAIN s.placed THEN [state |-> s, resp |-> Rejected("location occupied")]
  ELSE IF k \notin DOMAIN s.hands[p] \/ i >= Len(s.hands[p][k])
    THEN [state |-> s, resp |-> Rejected("tile not held")]
  ELSE [state |-> ApplyPlacement(s, p, remove_tile(s.hands[p], k, i), loc, gone),
        resp |-> Ok(Unit)]

(***************************************************************************)
(* State.                                                                  *)
(***************************************************************************)
VARIABLES
  game,      \* the game the hand was made for
  tiles,     \* PlayerState.tiles
  pre,       \* tiles before the last call
  last,      \* the last call: its name, arguments and outcome
  panicked,  \* a call has panicked: the program has stopped
  nAdds,     \* add_tile calls that returned
  nRemoves,  \* remove_tile calls that returned
  nDrained,  \* tiles returned by remove_all_tiles calls
  tpp_in,    \* the (kind, count) pairs PathGame::new was given
  base_game, \* the game, erased to BaseGame
  erased,    \* an erased value
  wrapped,   \* what erased was made from: its variant and the concrete value
  sp_in,     \* the start ports PathGame::new was given
  gstate,    \* the session's GameState
  gpre,      \* gstate before the last request
  selected_tile, \* the SelectedTile resource: index, action, tile
  selected_from, \* the action the selection began with
  presses,   \* the num_times of the buttons pressed since the selection
  colliders, \* the Collider components, by entity
  arrived,   \* by collider: a click event arrived since the last ColliderInputSystem run
  owed,      \* by collider: a click event arrived before the last run, since the one before
  game_world,\* GameWorld: state, id_counter
  pc,        \* where the running GameWorld call is
  editing,   \* the application state taken out of GameWorld.state
  steps,     \* what the running or last update call has done, in order
  calls,     \* the GameWorld calls that returned, in order, an update with the
             \* colliders that reported a click in it
  dom,       \* the document: parent id -> the ids of its children, in order
  models,    \* the Model components, by entity: None or Some(model)
  assigned,  \* the counter values given out, in order, each with the call it went to
  run_select_tile, \* the RunSelectTileSystem resource
  hand_entities    \* the hand's tile entities: None or Some(TileSelect, TileLabel, Collider)

vars == <<game, tiles, pre, last, panicked, nAdds, nRemoves, nDrained,
          tpp_in, base_game, erased, wrapped, sp_in, gstate, gpre,
          selected_tile, selected_from, presses,
          colliders, arrived, owed, game_world, pc, editing, steps, calls,
          dom, models, assigned, run_select_tile, hand_entities>>

sessionVars == <<gstate, gpre>>
\* no session is running
NoSession == gstate = <<>> /\ gpre = <<>>

clientVars == <<selected_tile, selected_from, presses>>
worldVars == <<colliders, arrived, owed, game_world, pc, editing, steps, calls>>
svgVars == <<dom, models, assigned>>
selectVars == <<run_select_tile, hand_entities>>
\* The entities that can hold a tile of the hand.
MaxHand == 2
\* SelectedTile::default(): nothing selected
SelectedTile_default == [index |-> 0, action |-> None, tile |-> None]
\* no client is running
NoClient ==
  /\ selected_tile = SelectedTile_default
  /\ selected_from = identity
  /\ presses = <<>>
  /\ run_select_tile = TRUE
  /\ hand_entities = [e \in 1..MaxHand |-> None]

\* The entities that can hold a Model.
MaxModels == 3
\* The page: the board's svg with an element of its own, and the hand's panel.
EmptyDocument == [svg_root |-> <<-1>>, bottom_panel |-> <<>>]

\* The entities with a Collider: the two buttons of GameWorld::new.
ColliderIds == DOMAIN Buttons
\* GameWorld::new has returned
NewWorld ==
  /\ colliders = [c \in ColliderIds |-> Collider_new]
  /\ arrived = [c \in ColliderIds |-> FALSE]
  /\ owed = [c \in ColliderIds |-> FALSE]
  /\ game_world = GameWorld_new
  /\ pc = "idle"
  /\ editing = None
  /\ steps = <<>>
  /\ calls = <<>>
  /\ dom = EmptyDocument
  /\ models = [e \in 1..MaxModels |-> None]
  /\ assigned = <<>>

handVars == <<tiles, pre, nAdds, nRemoves, nDrained>>
gameVars == <<tpp_in, base_game, erased, wrapped, sp_in>>

\* The boards of the model: their kinds.
BoardKindSets == {{"kA"}, {"kA", "kB"}}
Boards == [all_kinds : BoardKindSets, width : {3}, height : {2}, ports_per_edge : {1, 2}]

\* The games a hand is made for.
HandGames == {PathGame_new(b, <<>>, <<>>) : b \in Boards}

Init ==
  /\ game \in HandGames
  /\ tpp_in = <<>>
  /\ sp_in = <<>>
  /\ NoSession
  /\ NoClient
  /\ NewWorld
  /\ base_game = wrap_base("BaseGame", Normal, game)
  /\ erased = base_game
  /\ wrapped = [tag |-> Normal, val |-> game]
  /\ tiles = PlayerState_new(game)
  /\ pre = tiles
  /\ last = [op |-> "new"]
  /\ panicked = FALSE
  /\ nAdds = 0
  /\ nRemoves = 0
  /\ nDrained = 0

Outcome(r, rec) ==
  /\ pre' = tiles
  /\ tiles' = r.hand
  /\ last' = rec
  /\ panicked' = (r.ret.tag = "panic")
  /\ UNCHANGED <<game, gameVars, sessionVars, clientVars, worldVars, svgVars, selectVars>>

AddTile(t) ==
  /\ ~panicked
  /\ nAdds < MaxAdds
  /\ LET r == add_tile(tiles, t) IN
       /\ Outcome(r, [op |-> "add_tile", tile |-> t, ret |-> r.ret])
       /\ nAdds' = IF r.ret.tag = "ok" THEN nAdds + 1 ELSE nAdds
  /\ UNCHANGED <<nRemoves, nDrained>>

RemoveTile(k, i) ==
  /\ ~panicked
  /\ LET r == remove_tile(tiles, k, i) IN
       /\ Outcome(r, [op |-> "remove_tile", kind |-> k, index |-> i, ret |-> r.ret])
       /\ nRemoves' = IF r.ret.tag = "ok" THEN nRemoves + 1 ELSE nRemoves
  /\ UNCHANGED <<nAdds, nDrained>>

RemoveAllTiles ==
  /\ ~panicked
  /\ \E order \in Orders(DOMAIN tiles) :
       LET r == remove_all_tiles(tiles, order) IN
         /\ Outcome(r, [op |-> "remove_all_tiles", ret |-> r.ret])
         /\ nDrained' = nDrained + Len(r.ret.val)
  /\ UNCHANGED <<nAdds, nRemoves>>

NumTilesByKind(k) ==
  /\ ~panicked
  /\ LET ret == num_tiles_by_kind(tiles, k) IN
       Outcome([hand |-> tiles, ret |-> ret],
               [op |-> "num_tiles_by_kind", kind |-> k, ret |-> ret])
  /\ UNCHANGED <<nAdds, nRemoves, nDrained>>

Next ==
  \/ \E t \in AllTileValues : AddTile(t)
  \/ \E k \in Kinds, i \in 0..MaxAdds : RemoveTile(k, i)
  \/ RemoveAllTiles
  \/ \E k \in Kinds : NumTilesByKind(k)

Spec == Init /\ [][Next]_vars

(***************************************************************************)
(* The game definition: PathGame::new from its inputs, then calls on the   *)
(* concrete game and on its erased form.                                   *)
(***************************************************************************)
\* the sequences over S of length at most n
SeqsUpTo(S, n) == UNION {[1..m -> S] : m \in 0..n}

StartPortInputs == {<<>>, <<PortA, PortB>>, <<PortB, PortA>>}
PairInputs == SeqsUpTo(Kinds \X Counts, 2)

InitGame ==
  /\ tpp_in \in PairInputs
  /\ sp_in \in StartPortInputs
  /\ \E b \in Boards : game = PathGame_new(b, sp_in, tpp_in)
  /\ NoSession
  /\ NoClient
  /\ NewWorld
  /\ base_game = wrap_base("BaseGame", Normal, game)
  /\ erased = base_game
  /\ wrapped = [tag |-> Normal, val |-> game]
  /\ tiles = PlayerState_new(game)
  /\ pre = tiles
  /\ last = [op |-> "PathGame::new"]
  /\ panicked = FALSE
  /\ nAdds = 0
  /\ nRemoves = 0
  /\ nDrained = 0

GameOutcome(rec) ==
  /\ last' = rec
  /\ panicked' = (rec.ret.tag = "panic")
  /\ UNCHANGED <<game, handVars, tpp_in, sp_in, base_game, sessionVars, clientVars, worldVars, svgVars, selectVars>>

NumTilesPerPlayer(k) ==
  /\ ~panicked
  /\ GameOutcome([op |-> "num_tiles_per_player", kind |-> k,
                  ret |-> num_tiles_per_player(game, k)])
  /\ UNCHANGED <<erased, wrapped>>

BaseGameNewState(n) ==
  /\ ~panicked
  /\ GameOutcome([op |-> "BaseGame::new_state", n |-> n,
                  ret |-> BaseGame_new_state(base_game, n)])
  /\ UNCHANGED <<erased, wrapped>>

GenericGameNewState(n) ==
  /\ ~panicked
  /\ GameOutcome([op |-> "GenericGame::new_state", n |-> n,
                  ret |-> GenericGame_new_state(game, n)])
  /\ UNCHANGED <<erased, wrapped>>

BaseGameBoard ==
  /\ ~panicked
  /\ GameOutcome([op |-> "BaseGame::board", ret |-> BaseGame_board(base_game)])
  /\ UNCHANGED <<erased, wrapped>>

GenericGameBoard ==
  /\ ~panicked
  /\ GameOutcome([op |-> "GenericGame::board", ret |-> GenericGame_board(game)])
  /\ UNCHANGED <<erased, wrapped>>

\* a concrete value of variant tag is erased
WrapBase(tag, v) ==
  /\ ~panicked
  /\ erased' = wrap_base("Base", tag, v)
  /\ wrapped' = [tag |-> tag, val |-> v]
  /\ GameOutcome([op |-> "wrap_base", tag |-> tag, ret |-> Ok(Unit)])

\* the erased value is unwrapped as variant tag
UnwrapBaseRef(tag) ==
  /\ ~panicked
  /\ GameOutcome([op |-> "unwrap_base_ref", tag |-> tag,
                  ret |-> unwrap_base_ref(tag, erased)])
  /\ UNCHANGED <<erased, wrapped>>

StartPortsAndPositions ==
  /\ ~panicked
  /\ GameOutcome([op |-> "start_ports_and_positions",
                  ret |-> Ok(start_ports_and_positions(game))])
  /\ UNCHANGED <<erased, wrapped>>

BaseGameStartPortsAndPositions ==
  /\ ~panicked
  /\ GameOutcome([op |-> "BaseGame::start_ports_and_positions",
                  ret |-> Ok(BaseGame_start_ports_and_positions(base_game))])
  /\ UNCHANGED <<erased, wrapped>>

LocPosition(loc) ==
  /\ ~panicked
  /\ GameOutcome([op |-> "loc_position", loc |-> loc,
                  ret |-> Ok(loc_position(board(game), loc))])
  /\ UNCHANGED <<erased, wrapped>>

\* loc_position on the erased board with a location erased as variant tag
BaseBoardLocPosition(tag, loc) ==
  /\ ~panicked
  /\ GameOutcome([op |-> "BaseBoard::loc_position", tag |-> tag, loc |-> loc,
                  ret |-> BaseBoard_loc_position(BaseGame_board(base_game).val,
                                                 wrap_base("BaseTLoc", tag, loc))])
  /\ UNCHANGED <<erased, wrapped>>

NextGame ==
  \/ \E k \in Kinds : NumTilesPerPlayer(k)
  \/ \E n \in 0..MaxPlayers : BaseGameNewState(n)
  \/ \E n \in 0..MaxPlayers : GenericGameNewState(n)
  \/ BaseGameBoard
  \/ GenericGameBoard
  \/ \E tag \in Variants, v \in {game, board(game)} : WrapBase(tag, v)
  \/ \E tag \in Variants : UnwrapBaseRef(tag)
  \/ StartPortsAndPositions
  \/ BaseGameStartPortsAndPositions
  \/ \E loc \in Locs(board(game)) : LocPosition(loc)
  \/ \E tag \in Variants, loc \in Locs(board(game)) : BaseBoardLocPosition(tag, loc)

SpecGame == InitGame /\ [][NextGame]_vars

(***************************************************************************)
(* A session: a GameState derived from a game, then requests.              *)
(***************************************************************************)
\* The games of the sessions of the model: two tiles of kA a player.
SessionGames ==
  {PathGame_new(b, <<PortA, PortB>>, <<<<"kA", 2>>>>) :
     b \in {c \in Boards : all_kinds(c) = {"kA"} /\ ports_per_edge(c) = 1}}

\* The ports and locations requests name: PortC is no start port, <<3, 0>>
\* is off the 3x2 board.
PortC == <<<<2, 2>>, <<0, 1>>>>
RequestPorts == {PortA, PortB, PortC}
RequestLocs == {<<0, 0>>, <<1, 1>>, <<2, 1>>, <<3, 0>>}
RequestKinds == {"kA", "kC"}

InitSession ==
  /\ game \in SessionGames
  /\ tpp_in = <<<<"kA", 2>>>>
  /\ sp_in = start_ports(game)
  /\ base_game = wrap_base("BaseGame", Normal, game)
  /\ erased = base_game
  /\ wrapped = [tag |-> Normal, val |-> game]
  /\ \E n \in 1..MaxPlayers : gstate = BaseGame_new_state(base_game, n).val.val
  /\ gpre = gstate
  /\ NoClient
  /\ NewWorld
  /\ tiles = PlayerState_new(game)
  /\ pre = tiles
  /\ last = [op |-> "new_state"]
  /\ panicked = FALSE
  /\ nAdds = 0
  /\ nRemoves = 0
  /\ nDrained = 0

SessionOutcome(r, rec) ==
  /\ gpre' = gstate
  /\ gstate' = r.state
  /\ last' = rec
  /\ UNCHANGED <<game, handVars, gameVars, panicked, clientVars, worldVars, svgVars, selectVars>>

PlaceToken(p, port) ==
  LET r == place_token(game, gstate, p, port) IN
    SessionOutcome(r, [op |-> "place_token", player |-> p, port |-> port,
                       resp |-> r.resp])

PlaceTile(p, k, i, loc) ==
  \E gone \in SUBSET Alive(gstate) :
    LET r == place_tile(game, gstate, p, k, i, loc, gone) IN
      SessionOutcome(r, [op |-> "place_tile", player |-> p, kind |-> k,
                         index |-> i, loc |-> loc, resp |-> r.resp])

NextSession ==
  \/ \E p \in 1..MaxPlayers, port \in RequestPorts : PlaceToken(p, port)
  \/ \E p \in 1..MaxPlayers, k \in RequestKinds, i \in 0..2, loc \in RequestLocs :
       PlaceTile(p, k, i, loc)

SpecSession == InitSession /\ [][NextSession]_vars

(***************************************************************************)
(* The tiles of the client: the selected tile, rotated by the two buttons. *)
(***************************************************************************)
MaxPresses == 4

\* The tiles in the player's hand.
HandTiles(g) == {t \in all_tiles(g) : output(t, 0) = 1 /\ output(t, 2) = 3}
\* The tile entities that can be clicked: index, action, tile.
TileSelects(g) ==
  [index : {0, 1}, action : {wrap_base("BaseGAct", Normal, a) : a \in 0..(EDGES - 1)},
   tile : {wrap_base("BaseTile", Normal, t) : t \in HandTiles(g)}]
\* The buttons that can be clicked in one frame, in the order of the join.
ClickedButtons == {<<>>, <<rotate_ccw>>, <<rotate_cw>>, Buttons}

\* SelectTileSystem::run: the action of the selected tile composed with the
\* clicked buttons' actions, then the selection replaced by the clicked tile
SelectTileSystem_run(st, btns, sel) ==
  LET edited == IF st.action.tag = "some" /\ st.tile.tag = "some"
                  THEN ComposeClicked(st.action.val, st.tile.val, btns)
                  ELSE Ok(<<>>)
      st1 == IF st.action.tag = "some" /\ st.tile.tag = "some" /\ edited.tag = "ok"
               THEN [st EXCEPT !.action = Some(edited.val)]
               ELSE st
  IN IF edited.tag = "panic" THEN [st |-> st, ret |-> edited]
     ELSE IF sel.tag = "none" THEN [st |-> st1, ret |-> Ok(Unit)]
     ELSE [st |-> [index |-> sel.val.index,
                   action |-> Some(sel.val.action),
                   tile |-> Some(sel.val.tile)],
           ret |-> Ok(Unit)]

\* The games of the tiles of kind kA.
TileGames == {g \in HandGames : all_kinds(board(g)) = {"kA"}}

InitTile ==
  /\ game \in TileGames
  /\ tpp_in = <<>>
  /\ sp_in = <<>>
  /\ NoSession
  /\ NoClient
  /\ NewWorld
  /\ base_game = wrap_base("BaseGame", Normal, game)
  /\ erased = base_game
  /\ wrapped = [tag |-> Normal, val |-> game]
  /\ tiles = PlayerState_new(game)
  /\ pre = tiles
  /\ last = [op |-> "GameWorld::new"]
  /\ panicked = FALSE
  /\ nAdds = 0
  /\ nRemoves = 0
  /\ nDrained = 0

TileOutcome(rec) ==
  /\ last' = rec
  /\ panicked' = (rec.ret.tag = "panic")
  /\ UNCHANGED <<game, handVars, gameVars, sessionVars, worldVars, svgVars, selectVars>>

\* one frame of the tile selection
SelectTileSystemRun(btns, sel) ==
  LET r == SelectTileSystem_run(selected_tile, btns, sel)
      selected == selected_tile.action.tag = "some" /\ selected_tile.tile.tag = "some"
  IN /\ ~panicked
     /\ Len(presses) + Len(btns) <= MaxPresses
     /\ selected_tile' = r.st
     /\ selected_from' = IF sel.tag = "some" THEN sel.val.action.val ELSE selected_from
     /\ presses' = IF sel.tag = "some" THEN <<>>
                   ELSE IF selected THEN presses \o [i \in DOMAIN btns |-> btns[i].num_times]
                   ELSE presses
     /\ TileOutcome([op |-> "SelectTileSystem::run", ret |-> r.ret])

\* the selected tile drawn with its action applied
RenderSelected ==
  /\ ~panicked
  /\ selected_tile.action.tag = "some" /\ selected_tile.tile.tag = "some"
  /\ TileOutcome([op |-> "render",
                  ret |-> TileRender(apply_action(selected_tile.tile.val.val,
                                                  selected_tile.action.val.val))])
  /\ UNCHANGED clientVars

AllTiles ==
  /\ ~panicked
  /\ TileOutcome([op |-> "all_tiles", ret |-> Ok(all_tiles(game))])
  /\ UNCHANGED clientVars

\* every tile of the game drawn
RenderAllTiles ==
  /\ ~panicked
  /\ TileOutcome([op |-> "render_all_tiles",
                  ret |-> IF \E t \in all_tiles(game) : TileRender(t).tag = "panic"
                            THEN Panic("index out of bounds")
                            ELSE Ok({TileRender(t).val : t \in all_tiles(game)})])
  /\ UNCHANGED clientVars

NextTile ==
  \/ \E btns \in ClickedButtons, sel \in {None} \cup {Some(ts) : ts \in TileSelects(game)} :
       SelectTileSystemRun(btns, sel)
  \/ RenderSelected
  \/ AllTiles
  \/ RenderAllTiles

SpecTile == InitTile /\ [][NextTile]_vars

(***************************************************************************)
(* The GameWorld: click events between calls, and the update and           *)
(* handle_response calls, step by step.  The program is single-threaded:   *)
(* an event callback runs only when no call is running.                    *)
(***************************************************************************)
MaxCalls == 3

\* the buttons whose collider reports a click, in the order of the join
ClickedOf(cs) ==
  LET ids == SelectSeq([i \in 1..Len(Buttons) |-> i], LAMBDA i : clicked(cs[i]))
  IN [j \in DOMAIN ids |-> Buttons[ids[j]]]

InitWorld ==
  /\ game \in TileGames
  /\ tpp_in = <<>>
  /\ sp_in = <<>>
  /\ NoSession
  /\ NoClient
  /\ NewWorld
  /\ base_game = wrap_base("BaseGame", Normal, game)
  /\ erased = base_game
  /\ wrapped = [tag |-> Normal, val |-> game]
  /\ tiles = PlayerState_new(game)
  /\ pre = tiles
  /\ last = [op |-> "GameWorld::new", ret |-> Ok(Unit)]
  /\ panicked = FALSE
  /\ nAdds = 0
  /\ nRemoves = 0
  /\ nDrained = 0

restVars == <<game, handVars, gameVars, sessionVars, selected_from, presses, svgVars,
              selectVars>>

\* an event on a collider's element: its listener runs
ColliderEvent(c, after) ==
  /\ ~panicked
  /\ pc = "idle"
  /\ colliders' = [colliders EXCEPT ![c] = after]
  /\ UNCHANGED <<restVars, selected_tile, owed, game_world, pc, editing, steps, calls,
                 last, panicked>>

Click(c) ==
  /\ ColliderEvent(c, click_listener(colliders[c]))
  /\ arrived' = [arrived EXCEPT ![c] = TRUE]

MouseOver(c) ==
  /\ ColliderEvent(c, mouseover_listener(colliders[c]))
  /\ UNCHANGED arrived

MouseOut(c) ==
  /\ ColliderEvent(c, mouseout_listener(colliders[c]))
  /\ UNCHANGED arrived

\* update: self.dispatcher.dispatch(&mut self.world)
UpdateDispatch ==
  /\ ~panicked
  /\ pc = "idle"
  /\ Len(calls) < MaxCalls
  /\ colliders' = ColliderInputSystem_run(colliders)
  /\ owed' = arrived
  /\ arrived' = [c \in ColliderIds |-> FALSE]
  /\ selected_tile' = SelectTileSystem_run(selected_tile, ClickedOf(colliders'), None).st
  /\ steps' = <<"dispatcher">>
  /\ pc' = "update_dispatched"
  /\ UNCHANGED <<restVars, game_world, editing, calls, last, panicked>>

\* self.state.take().expect("State is missing"), in update or handle_response
TakeState(from, to) ==
  /\ ~panicked
  /\ pc = from
  /\ LET t == take(game_world)
         r == expect(t.taken, "State is missing")
     IN /\ game_world' = t.world
        /\ IF r.tag = "ok"
             THEN /\ editing' = Some(r.val)
                  /\ pc' = to
                  /\ UNCHANGED <<last, panicked>>
             ELSE /\ panicked' = TRUE
                  /\ last' = [op |-> "take", ret |-> r]
                  /\ UNCHANGED <<editing, pc>>
  /\ UNCHANGED <<restVars, selected_tile, colliders, arrived, owed, steps, calls>>

UpdateTake ==
  /\ pc = "update_dispatched"
  /\ TakeState("update_dispatched", "update_taken")

\* update: self.state = Some(state.update(self, &mut requests))
UpdateStore(next) ==
  /\ ~panicked
  /\ pc = "update_taken"
  /\ game_world' = GameWorld_store(game_world, next)
  /\ editing' = None
  /\ steps' = Append(steps, "transition")
  /\ pc' = "update_stored"
  /\ UNCHANGED <<restVars, selected_tile, colliders, arrived, owed, calls, last, panicked>>

\* update: self.render_dispatcher.dispatch(&mut self.world), and the return
UpdateRender ==
  /\ ~panicked
  /\ pc = "update_stored"
  /\ steps' = Append(steps, "render_dispatcher")
  /\ pc' = "idle"
  /\ calls' = Append(calls, [op |-> "update",
                            clicked |-> {c \in ColliderIds : clicked(colliders[c])}])
  /\ last' = [op |-> "update", ret |-> Ok(Unit)]
  /\ UNCHANGED <<restVars, selected_tile, colliders, arrived, owed, game_world, editing,
                 panicked>>

HandleTake ==
  /\ Len(calls) < MaxCalls
  /\ TakeState("idle", "handle_taken")

\* handle_response: self.state = Some(state.handle_response(self, response, ..)),
\* and the return
HandleStore(next) ==
  /\ ~panicked
  /\ pc = "handle_taken"
  /\ game_world' = GameWorld_store(game_world, next)
  /\ editing' = None
  /\ pc' = "idle"
  /\ calls' = Append(calls, [op |-> "handle_response"])
  /\ last' = [op |-> "handle_response", ret |-> Ok(Unit)]
  /\ UNCHANGED <<restVars, selected_tile, colliders, arrived, owed, steps, panicked>>

NextWorld ==
  \/ \E c \in ColliderIds : Click(c)
  \/ \E c \in ColliderIds : MouseOver(c)
  \/ \E c \in ColliderIds : MouseOut(c)
  \/ UpdateDispatch
  \/ UpdateTake
  \/ \E next \in AppStates : UpdateStore(next)
  \/ UpdateRender
  \/ HandleTake
  \/ \E next \in AppStates : HandleStore(next)

SpecWorld == InitWorld /\ [][NextWorld]_vars

(***************************************************************************)
(* The models of the client: created, dropped, and put in order.           *)
(***************************************************************************)
MaxIds == 3

\* Where and with which order the client creates its models.
ModelPlaces ==
  ({"svg_root"} \X {ORDER_TILE, ORDER_TILE_HOVER, ORDER_TILE_LOC}) \cup ({"bottom_panel"} \X {0})

InitSvg ==
  /\ game \in TileGames
  /\ tpp_in = <<>>
  /\ sp_in = <<>>
  /\ NoSession
  /\ NoClient
  /\ NewWorld
  /\ base_game = wrap_base("BaseGame", Normal, game)
  /\ erased = base_game
  /\ wrapped = [tag |-> Normal, val |-> game]
  /\ tiles = PlayerState_new(game)
  /\ pre = tiles
  /\ last = [op |-> "GameWorld::new"]
  /\ panicked = FALSE
  /\ nAdds = 0
  /\ nRemoves = 0
  /\ nDrained = 0

SvgOutcome(rec) ==
  /\ last' = rec
  /\ UNCHANGED <<game, handVars, gameVars, sessionVars, clientVars, panicked,
                 colliders, arrived, owed, pc, editing, steps, calls, selectVars>>

\* an entity is built with a Model
NewModel(e, place) ==
  LET r == Model_new(dom, game_world.id_counter, place[2], place[1])
  IN /\ models[e] = None
     /\ game_world.id_counter < MaxIds
     /\ dom' = r.dom
     /\ game_world' = [game_world EXCEPT !.id_counter = r.id_counter]
     /\ models' = [models EXCEPT ![e] = Some(r.model)]
     /\ assigned' = Append(assigned, [by |-> "Model::new", value |-> r.model.id])
     /\ SvgOutcome([op |-> "Model::new"])

\* an entity with a Model is deleted
DropModel(e) ==
  /\ models[e] # None
  /\ dom' = Model_drop(dom, models[e].val)
  /\ models' = [models EXCEPT ![e] = None]
  /\ SvgOutcome([op |-> "drop"])
  /\ UNCHANGED <<game_world, assigned>>

\* the render dispatcher runs SvgOrderSystem
SvgOrderSystemRun ==
  LET r == SvgOrderSystem_run(dom, models)
  IN /\ dom' = r.dom
     /\ models' = r.models
     /\ SvgOutcome([op |-> "SvgOrderSystem::run", dom |-> dom, models |-> models])
     /\ UNCHANGED <<game_world, assigned>>

NextSvg ==
  \/ \E e \in 1..MaxModels, place \in ModelPlaces : NewModel(e, place)
  \/ \E e \in 1..MaxModels : DropModel(e)
  \/ SvgOrderSystemRun

SpecSvg == InitSvg /\ [][NextSvg]_vars

(***************************************************************************)
(* The id counter of GameWorld, shared by Model::new and render_token.     *)
(***************************************************************************)
\* the token drawn with the counter's value, the counter left as it is
render_token_peek(index, num_players, id_counter) ==
  [id_counter |-> id_counter,
   svg |-> [gradient |-> <<"g", id_counter>>, fill |-> <<"g", id_counter>>]]

\* render_token: the gradient's id and the circle's fill are "g" and the
\* counter's value, and the counter moves on by one (the colours are left out)
render_token(index, num_players, id_counter) ==
  [id_counter |-> id_counter + 1,
   svg |-> [gradient |-> <<"g", id_counter + 1 - 1>>, fill |-> <<"g", id_counter + 1 - 1>>]]

\* a player's token is rendered
RenderToken(index) ==
  LET r == render_token(index, MaxPlayers, game_world.id_counter)
  IN /\ game_world.id_counter < MaxIds
     /\ game_world' = [game_world EXCEPT !.id_counter = r.id_counter]
     /\ assigned' = Append(assigned, [by |-> "render_token", value |-> r.svg.gradient[2]])
     /\ SvgOutcome([op |-> "render_token", svg |-> r.svg])
     /\ UNCHANGED <<dom, models>>

NextIds ==
  \/ \E e \in 1..MaxModels, place \in ModelPlaces : NewModel(e, place)
  \/ \E e \in 1..MaxModels : DropModel(e)
  \/ \E index \in 0..(MaxPlayers - 1) : RenderToken(index)

SpecIds == InitSvg /\ [][NextIds]_vars

(***************************************************************************)
(* The hand's tile entities and their selection: frames of the dispatcher  *)
(* in which the colliders report the clicks latched for the frame and      *)
(* SelectTileSystem runs over them.                                        *)
(***************************************************************************)
\* create_hand_entity: TileSelect::new(kind, index, action) with the tile's
\* label and a collider
HandEntity(index, action, tile) ==
  [selected |-> FALSE, index |-> index, action |-> action, tile |-> tile, clicked |-> FALSE]

\* the entities of the join, in its order
Joined(hes) == SelectSeq([e \in 1..Len(hes) |-> e], LAMBDA e : hes[e].tag = "some")

\* every clicked tile marked selected
SelectClicked_all(st, hes) ==
  [st |-> st,
   hes |-> [e \in DOMAIN hes |->
              IF hes[e].tag = "some"
                THEN Some([hes[e].val EXCEPT !.selected = hes[e].val.clicked])
                ELSE hes[e]]]

RECURSIVE SelectLoop(_, _, _, _)
\* the loop over (colliders, tiles, tile_selects): after the first clicked
\* entity every flag is cleared; up to it the flag is the collider's clicked,
\* and the first clicked entity fills SelectedTile
SelectLoop(ids, st, hes, found_selected) ==
  IF ids = <<>> THEN [st |-> st, hes |-> hes]
  ELSE LET e == Head(ids)
           h == hes[e].val
       IN IF found_selected
            THEN SelectLoop(Tail(ids), st,
                            [hes EXCEPT ![e] = Some([h EXCEPT !.selected = FALSE])], TRUE)
            ELSE SelectLoop(Tail(ids),
                            IF h.clicked
                              THEN [index |-> h.index, action |-> Some(h.action),
                                    tile |-> Some(h.tile)]
                              ELSE st,
                            [hes EXCEPT ![e] = Some([h EXCEPT !.selected = h.clicked])],
                            h.clicked)

\* SelectTileSystem::run, the selection: nothing when no tile's collider
\* reports a click, the loop otherwise
SelectClicked(st, hes) ==
  IF \A e \in DOMAIN hes : hes[e].tag = "some" => ~hes[e].val.clicked
    THEN [st |-> st, hes |-> hes]
    ELSE SelectLoop(Joined(hes), st, hes, FALSE)

\* SelectTileSystem::run over its data: nothing when the run flag is off;
\* else the selected action edited by the clicked buttons, then the selection
SelectTileSystem_run_data(run, st, cs, hes) ==
  IF ~run THEN [st |-> st, hes |-> hes, ret |-> Ok(Unit)]
  ELSE LET edit == SelectTileSystem_run(st, ClickedOf(cs), None)
           sel == SelectClicked(edit.st, hes)
       IN IF edit.ret.tag = "panic"
            THEN [st |-> st, hes |-> hes, ret |-> edit.ret]
            ELSE [st |-> sel.st, hes |-> sel.hes, ret |-> Ok(Unit)]

\* The games of the selection: two ports an edge.
SelectGames == {g \in TileGames : ports_per_edge(board(g)) = 2}
\* The tile entities the hand is given: index 0 and index 1.
HandEntityInputs(g) ==
  {HandEntity(0, wrap_base("BaseGAct", Normal, identity),
              wrap_base("BaseTile", Normal, CHOOSE t \in HandTiles(g) : output(t, 4) = 5)),
   HandEntity(1, wrap_base("BaseGAct", Normal, 3),
              wrap_base("BaseTile", Normal, CHOOSE t \in HandTiles(g) : output(t, 4) = 6))}

InitSelect ==
  /\ game \in SelectGames
  /\ tpp_in = <<>>
  /\ sp_in = <<>>
  /\ NoSession
  /\ NoClient
  /\ NewWorld
  /\ base_game = wrap_base("BaseGame", Normal, game)
  /\ erased = base_game
  /\ wrapped = [tag |-> Normal, val |-> game]
  /\ tiles = PlayerState_new(game)
  /\ pre = tiles
  /\ last = [op |-> "GameWorld::new"]
  /\ panicked = FALSE
  /\ nAdds = 0
  /\ nRemoves = 0
  /\ nDrained = 0

SelectOutcome(rec) ==
  /\ last' = rec
  /\ UNCHANGED <<game, handVars, gameVars, sessionVars, svgVars, selected_from, presses,
                 arrived, owed, game_world, pc, editing, steps, calls, panicked>>

\* the hand is given a tile entity
CreateHandEntity(e, h) ==
  /\ hand_entities[e] = None
  /\ hand_entities' = [hand_entities EXCEPT ![e] = Some(h)]
  /\ SelectOutcome([op |-> "create_hand_entity"])
  /\ UNCHANGED <<selected_tile, colliders, run_select_tile>>

\* the application turns the system on or off
SetRunSelectTileSystem(b) ==
  /\ run_select_tile # b
  /\ run_select_tile' = b
  /\ SelectOutcome([op |-> "RunSelectTileSystem"])
  /\ UNCHANGED <<selected_tile, colliders, hand_entities>>

\* a frame: the colliders of bc (buttons) and hc (hand tiles) report the
\* clicks latched for it, and SelectTileSystem runs
SelectFrame(bc, hc) ==
  LET cs == [c \in ColliderIds |-> [colliders[c] EXCEPT !.clicked = (c \in bc)]]
      hes == [e \in DOMAIN hand_entities |->
                IF hand_entities[e].tag = "some"
                  THEN Some([hand_entities[e].val EXCEPT !.clicked = (e \in hc)])
                  ELSE hand_entities[e]]
      r == SelectTileSystem_run_data(run_select_tile, selected_tile, cs, hes)
  IN /\ \A e \in hc : hand_entities[e].tag = "some"
     /\ colliders' = cs
     /\ selected_tile' = r.st
     /\ hand_entities' = r.hes
     /\ SelectOutcome([op |-> "SelectTileSystem::run", run |-> run_select_tile,
                       before |-> selected_tile,
                       before_selected |-> {e \in DOMAIN hand_entities :
                                              /\ hand_entities[e].tag = "some"
                                              /\ hand_entities[e].val.selected}])
     /\ UNCHANGED run_select_tile

NextSelect ==
  \/ \E e \in 1..MaxHand, h \in HandEntityInputs(game) : CreateHandEntity(e, h)
  \/ \E b \in BOOLEAN : SetRunSelectTileSystem(b)
  \/ \E bc \in SUBSET ColliderIds, hc \in SUBSET (1..MaxHand) : SelectFrame(bc, hc)

SpecSelect == InitSelect /\ [][NextSelect]_vars

(***************************************************************************)
(* The hand's properties.                                                  *)
(***************************************************************************)
\* occurrences of tile t in sequence s
CountIn(s, t) == Cardinality({i \in 1..Len(s) : s[i] = t})
\* occurrences of tile t in hand h
CountHeld(h, t) == SumOver([k \in DOMAIN h |-> CountIn(h[k], t)], DOMAIN h)

\* C1: hand conservation.  The tiles held, over all kinds, are the add_tile
\* calls that returned minus the remove_tile calls that returned (minus what
\* remove_all_tiles gave back, which is 0 in a run of add_tile and
\* remove_tile calls only).
HandConservation == Total(tiles) = nAdds - nRemoves - nDrained

\* C1 happens: adds and a remove, no remove_all_tiles, tiles still held.
HandConservationWitness ==
  /\ nAdds = MaxAdds /\ nRemoves = 1 /\ nDrained = 0
  /\ last.op = "remove_tile" /\ ~panicked

\* C2: remove_all_tiles leaves every kind's list empty and every kind's entry
\* in place, and returns as many tiles as were held, each tile as often as
\* it was held.
RemoveAllDrains ==
  last.op = "remove_all_tiles" =>
    /\ DOMAIN tiles = DOMAIN pre
    /\ \A k \in DOMAIN tiles : tiles[k] = <<>>
    /\ last.ret.tag = "ok"
    /\ Len(last.ret.val) = Total(pre)
    /\ \A t \in AllTileValues : CountIn(last.ret.val, t) = CountHeld(pre, t)

\* C2 happens: remove_all_tiles on a hand holding tiles of two kinds.
RemoveAllDrainsWitness ==
  /\ last.op = "remove_all_tiles"
  /\ Total(pre) >= 3
  /\ \E k1, k2 \in DOMAIN pre : k1 # k2 /\ pre[k1] # <<>> /\ pre[k2] # <<>>

\* C3: kind completeness.  Right after PlayerState::new every kind of the
\* board counts 0 tiles and every other kind's count panics; a count asked
\* for a kind the board has not ends in a panic, not in a number.
KindCompleteness ==
  /\ last.op = "new" =>
       /\ \A k \in all_kinds(board(game)) : num_tiles_by_kind(tiles, k) = Ok(0)
       /\ \A k \in Kinds \ all_kinds(board(game)) :
            num_tiles_by_kind(tiles, k).tag = "panic"
  /\ (last.op = "num_tiles_by_kind" /\ last.kind \notin all_kinds(board(game))) =>
       (last.ret.tag = "panic" /\ panicked)

\* C3 happens: the first call on a new hand asks for a kind the board has not.
KindCompletenessWitness ==
  /\ last.op = "num_tiles_by_kind"
  /\ last.kind \notin all_kinds(board(game))
  /\ nAdds = 0
  /\ panicked

\* C4: the kinds with an entry in the hand are the board's kinds, in every
\* reachable state, so the count of a board kind never fails.
KindsAreBoardKinds ==
  /\ DOMAIN tiles = all_kinds(board(game))
  /\ \A k \in all_kinds(board(game)) : num_tiles_by_kind(tiles, k).tag = "ok"

\* C4 happens: remove_all_tiles after adds and a remove.
KindsAreBoardKindsWitness ==
  /\ last.op = "remove_all_tiles"
  /\ nAdds >= 2 /\ nRemoves >= 1
  /\ Cardinality(all_kinds(board(game))) = 2

\* C5: add_tile of a tile whose kind has an entry appends it to that kind's
\* list: the list grows by one, its earlier tiles keep their places, the new
\* tile is last, and the list of every other kind is as before.
AddTileAppends ==
  (last.op = "add_tile" /\ TileKind(last.tile) \in DOMAIN pre) =>
    LET k == TileKind(last.tile) IN
      /\ last.ret = Ok(Unit)
      /\ Len(tiles[k]) = Len(pre[k]) + 1
      /\ \A j \in 1..Len(pre[k]) : tiles[k][j] = pre[k][j]
      /\ tiles[k][Len(tiles[k])] = last.tile
      /\ DOMAIN tiles = DOMAIN pre
      /\ \A o \in DOMAIN pre \ {k} : tiles[o] = pre[o]

\* C5 happens: a tile added behind a different tile of its kind, another
\* kind holding a tile.
AddTileAppendsWitness ==
  /\ last.op = "add_tile" /\ last.ret.tag = "ok"
  /\ pre[TileKind(last.tile)] # <<>>
  /\ pre[TileKind(last.tile)][1] # last.tile
  /\ \E o \in DOMAIN pre \ {TileKind(last.tile)} : pre[o] # <<>>

\* C6: remove_tile with index below the length of the kind's list returns
\* the tile at index, takes it out, moves the later tiles down by one in
\* their order, and leaves every other kind's list as it was.
RemoveTileRemoves ==
  (/\ last.op = "remove_tile"
   /\ last.kind \in DOMAIN pre
   /\ last.index < Len(pre[last.kind])) =>
    LET k == last.kind
        i == last.index
    IN /\ last.ret = Ok(pre[k][i + 1])
       /\ Len(tiles[k]) = Len(pre[k]) - 1
       /\ \A j \in 1..i : tiles[k][j] = pre[k][j]
       /\ \A j \in (i + 1)..Len(tiles[k]) : tiles[k][j] = pre[k][j + 1]
       /\ DOMAIN tiles = DOMAIN pre
       /\ \A o \in DOMAIN pre \ {k} : tiles[o] = pre[o]

\* C6 happens: the first of three tiles removed, the two behind it differing.
RemoveTileRemovesWitness ==
  /\ last.op = "remove_tile" /\ last.ret.tag = "ok"
  /\ last.index = 0
  /\ Len(pre[last.kind]) = 3
  /\ pre[last.kind][2] # pre[last.kind][3]

OutOfRange ==
  /\ last.op = "remove_tile"
  /\ last.kind \in DOMAIN pre
  /\ last.index >= Len(pre[last.kind])

\* C7 as claimed: remove_tile with an index out of range gives the
\* recoverable error IndexOutOfRange, does not crash, and leaves the hand
\* unchanged.
RemoveTileOutOfRangeRecoverable ==
  OutOfRange =>
    /\ last.ret = Err("IndexOutOfRange")
    /\ ~panicked
    /\ tiles = pre

\* C7 as amended: remove_tile with an index out of range panics (Vec::remove's
\* bounds assertion), returning nothing, with the hand unchanged at the panic.
RemoveTileOutOfRangePanics ==
  OutOfRange =>
    /\ last.ret.tag = "panic"
    /\ panicked
    /\ tiles = pre

\* C7 happens: an index past the end of a list that holds tiles.
RemoveTileOutOfRangeWitness ==
  /\ OutOfRange
  /\ Len(pre[last.kind]) >= 1
  /\ last.index > Len(pre[last.kind])

(***************************************************************************)
(* The game definition's properties.                                       *)
(***************************************************************************)
\* the places of tpp_in that give a count for kind k
GivenFor(k) == {i \in DOMAIN tpp_in : tpp_in[i][1] = k}

\* C8: num_tiles_per_player(kind) returns the count PathGame::new was given
\* for the kind (the last one, were the kind given twice), and panics,
\* returning no default, for a kind it was given no count for.
NumTilesPerPlayerLooksUp ==
  last.op = "num_tiles_per_player" =>
    IF GivenFor(last.kind) = {}
      THEN last.ret.tag = "panic" /\ panicked
      ELSE /\ ~panicked
           /\ last.ret.tag = "ok"
           /\ \E i \in GivenFor(last.kind) :
                /\ last.ret.val = tpp_in[i][2]
                /\ \A j \in GivenFor(last.kind) : j <= i

\* C8 happens: a kind outside a mapping that gives other kinds a count.
NumTilesPerPlayerWitness ==
  /\ last.op = "num_tiles_per_player"
  /\ GivenFor(last.kind) = {}
  /\ Len(tpp_in) = 2
  /\ \A i \in DOMAIN tpp_in : tpp_in[i][2] > 0
  /\ panicked

\* C9: a value wrapped under a variant's tag unwraps, with that tag, to the
\* value that was wrapped, and with any other tag to no value.
WrapUnwrapRoundTrip ==
  last.op = "unwrap_base_ref" =>
    IF last.tag = wrapped.tag
      THEN last.ret = Ok(wrapped.val)
      ELSE last.ret.tag = "panic"

\* C9 happens: a value wrapped under the second variant, unwrapped as the first.
WrapUnwrapWitness ==
  /\ last.op = "unwrap_base_ref"
  /\ wrapped.tag = 2
  /\ last.tag = 1
  /\ last.ret.tag = "panic"

KindCount(h, k) ==
  SumOver([l \in DOMAIN h |-> Cardinality({i \in 1..Len(h[l]) : TileKind(h[l][i]) = k})],
          DOMAIN h)

\* the game's tile economy gives a count to the kinds of its board and to
\* no other kind (the Game invariants of the data model)
WellFormedEconomy(g) == DOMAIN g.tiles_per_player = all_kinds(board(g))

OccupiedPlacementRejected ==
  (last.op = "place_tile" /\ last.loc \in DOMAIN gpre.placed) =>
    /\ last.resp.tag = "rejected"
    /\ ~panicked
    /\ gstate.placed = gpre.placed
    /\ gstate.hands = gpre.hands
    /\ gstate.tokens = gpre.tokens
    /\ gstate.turn = gpre.turn
    /\ gstate = gpre

\* C12 happens: the player whose turn it is places a tile they hold at an
\* occupied location.
OccupiedPlacementWitness ==
  /\ last.op = "place_tile"
  /\ last.loc \in DOMAIN gpre.placed
  /\ last.player = TurnPlayer(gpre)
  /\ last.player \in Alive(gpre)
  /\ last.kind \in DOMAIN gpre.hands[last.player]
  /\ last.index < Len(gpre.hands[last.player][last.kind])
  /\ last.resp = Rejected("location occupied")

\* C13: termination is monotone.  No request takes a state in which
\* game_over() is true to one in which it is false.
TerminationMonotone == [][game_over(gstate) => game_over(gstate')]_vars

\* C13 happens: a tile is placed when the game is over, and it stays over.
TerminationMonotoneWitness ==
  /\ last.op = "place_tile"
  /\ last.resp.tag = "ok"
  /\ game_over(gpre)
  /\ game_over(gstate)
  /\ Cardinality(Players(gstate)) = 2

(***************************************************************************)
(* Positions of start ports and of tile locations.                         *)
(***************************************************************************)
\* C14: start_ports_and_positions returns one (port, position) pair per start
\* port, in the order the ports were given to PathGame::new, each position the
\* board's port_position of the port; the BaseGame version returns the same
\* list with each port wrapped.
StartPortsAndPositionsInOrder ==
  /\ last.op = "start_ports_and_positions" =>
       /\ last.ret.tag = "ok"
       /\ Len(last.ret.val) = Len(sp_in)
       /\ start_ports(game) = sp_in
       /\ \A i \in DOMAIN sp_in :
            last.ret.val[i] = <<sp_in[i], port_position(board(game), sp_in[i])>>
  /\ last.op = "BaseGame::start_ports_and_positions" =>
       /\ last.ret.tag = "ok"
       /\ Len(last.ret.val) = Len(sp_in)
       /\ \A i \in DOMAIN sp_in :
            last.ret.val[i] = <<wrap_base("BasePort", Normal, sp_in[i]),
                                port_position(board(game), sp_in[i])>>

\* C14 happens: two different start ports on a board of two ports an edge;
\* the first one, a third along its edge, comes first.
StartPortsAndPositionsWitness ==
  /\ last.op = "BaseGame::start_ports_and_positions"
  /\ sp_in = <<PortA, PortB>>
  /\ ports_per_edge(board(game)) = 2
  /\ last.ret.val[1] = <<wrap_base("BasePort", Normal, PortA), <<<<1, 3>>, <<0, 1>>>>>>
  /\ last.ret.val[2] = <<wrap_base("BasePort", Normal, PortB), <<<<0, 1>>, <<1, 3>>>>>>

\* C17: loc_position of the location (x, y) of the rectangular board is
\* (x + 1/2, y + 1/2), and BaseBoard::loc_position of the wrapped board and
\* the wrapped location is the same point.
LocPositionIsCentre ==
  (last.op = "loc_position" \/ (last.op = "BaseBoard::loc_position" /\ last.tag = Normal)) =>
    last.ret = Ok(<<Frac(2 * last.loc[1] + 1, 2), Frac(2 * last.loc[2] + 1, 2)>>)

\* C17 happens: location (1,1) of the 3x2 board, through the erased board, is
\* at (3/2, 3/2).
LocPositionWitness ==
  /\ last.op = "BaseBoard::loc_position"
  /\ last.tag = Normal
  /\ last.loc = <<1, 1>>
  /\ board(game).width = 3 /\ board(game).height = 2
  /\ last.ret = Ok(<<<<3, 2>>, <<3, 2>>>>)

(***************************************************************************)
(* The tile family's properties.                                           *)
(***************************************************************************)
\* C15: rotations of the 4-edged family compose by adding their step counts
\* modulo 4.  The selected tile's action is the action the selection began
\* with, moved by the sum of the pressed buttons' num_times modulo 4; so four
\* presses of the one-step rotation, and a counter-clockwise press (-1)
\* followed by a clockwise one (1), leave the action as it was.
RotationsComposeModulo ==
  (selected_tile.action.tag = "some" /\ selected_tile.tile.tag = "some") =>
    /\ ~panicked
    /\ selected_tile.action.val =
         wrap_base("BaseGAct", Normal,
                   (selected_from + SumOver(presses, DOMAIN presses)) % EDGES)
    /\ presses \in {<<1, 1, 1, 1>>, <<-1, 1>>, <<1, -1>>, <<-1, -1, -1, -1>>} =>
         selected_tile.action.val = wrap_base("BaseGAct", Normal, selected_from)

\* C15 happens: from the identity, the one-step rotation pressed four times.
RotationsComposeWitness ==
  /\ presses = <<1, 1, 1, 1>>
  /\ selected_from = identity
  /\ selected_tile.action = Some(wrap_base("BaseGAct", Normal, identity))
  /\ selected_tile.tile.tag = "some"

\* C16: connection symmetry.  For every tile of all_tiles() and every port p
\* below num_ports(), output(p) is a port below num_ports() and
\* output(output(p)) = p; drawing such a tile indexes no point out of range.
ConnectionSymmetry ==
  /\ last.op = "all_tiles" =>
       \A t \in last.ret.val : \A p \in 0..(num_ports(t) - 1) :
         /\ output(t, p) \in 0..(num_ports(t) - 1)
         /\ output(t, output(t, p)) = p
  /\ last.op = "render_all_tiles" =>
       /\ last.ret.tag = "ok"
       /\ \A paths \in last.ret.val : \A c \in paths : <<c[2], c[1]>> \in paths

\* C16 happens: the tiles of two ports an edge are enumerated, one of them
\* connecting port 0 to port 7.
ConnectionSymmetryWitness ==
  /\ last.op = "all_tiles"
  /\ ports_per_edge(board(game)) = 2
  /\ Cardinality(last.ret.val) > 1
  /\ \E t \in last.ret.val : num_ports(t) = 8 /\ output(t, 0) = 7 /\ output(t, 7) = 0

(***************************************************************************)
(* The GameWorld's properties.                                             *)
(***************************************************************************)
\* C18: the click latch.  After a ColliderInputSystem run, clicked() of a
\* collider is true exactly when a click event reached its element since the
\* run before: a click is reported by the next run (never lost), and by that
\* run only (the run after it reports false unless a new click arrived).
ClickLatch ==
  \A c \in ColliderIds :
    /\ clicked(colliders[c]) = owed[c]
    /\ colliders[c].clicked_raw = arrived[c]

\* C18 happens: a click was reported by one run and, no click having arrived
\* since, the next run reports none, while the other collider has a click
\* waiting.
ClickLatchWitness ==
  /\ Len(calls) = 2
  /\ calls[1] = [op |-> "update", clicked |-> {1}]
  /\ calls[2] = [op |-> "update", clicked |-> {}]
  /\ pc = "idle"
  /\ ~clicked(colliders[1])
  /\ selected_tile = SelectedTile_default
  /\ arrived[2] /\ ~owed[2]

\* C19: GameWorld's state is absent only while it is being edited.  It is
\* present whenever no call is running, 'State is missing' is never reached,
\* and update runs the input dispatcher, then the state transition, then the
\* render dispatcher.
StatePresentBetweenCalls ==
  /\ pc = "idle" => game_world.state.tag = "some"
  /\ game_world.state.tag = "none" => pc \in {"update_taken", "handle_taken"} /\ editing.tag = "some"
  /\ ~panicked
  /\ last.ret # Panic("State is missing")
  /\ pc = "update_dispatched" => steps = <<"dispatcher">> /\ game_world.state.tag = "some"
  /\ pc = "update_taken" => steps = <<"dispatcher">>
  /\ pc = "update_stored" => steps = <<"dispatcher", "transition">>
  /\ (pc \in {"idle", "handle_taken"} /\ steps # <<>>) =>
       steps = <<"dispatcher", "transition", "render_dispatcher">>

\* C19 happens: update, handle_response and update again have returned, and
\* the state is there.
StatePresentWitness ==
  /\ Len(calls) = 3
  /\ calls[1].op = "update" /\ calls[2].op = "handle_response" /\ calls[3].op = "update"
  /\ pc = "idle"
  /\ game_world.state = Some("InGame")
  /\ steps = <<"dispatcher", "transition", "render_dispatcher">>

(***************************************************************************)
(* The order of the models' elements.                                      *)
(***************************************************************************)
\* the models of ms whose element is a child of p in document d
ModelsUnder(d, ms, p) ==
  {e \in DOMAIN ms : ms[e].tag = "some" /\ \E i \in DOMAIN d[p] : d[p][i] = ms[e].val.id}
\* the orders of the Model-backed children of p, in the order of the children
ChildOrders(d, ms, p) ==
  LET backed == SelectSeq(d[p], LAMBDA id : \E e \in ModelsUnder(d, ms, p) : ms[e].val.id = id)
  IN [i \in DOMAIN backed |->
        ms[CHOOSE e \in ModelsUnder(d, ms, p) : ms[e].val.id = backed[i]].val.order]

\* C20: after a run of SvgOrderSystem, under every parent that had a Model
\* with order_changed set, the Model-backed children are in non-decreasing
\* order and every order_changed of the group is false; a parent none of
\* whose Models had the flag set keeps its children as they were.
SvgOrderSorted ==
  last.op = "SvgOrderSystem::run" =>
    \A p \in DOMAIN dom :
      IF \E e \in ModelsUnder(last.dom, last.models, p) : last.models[e].val.order_changed
        THEN /\ \A i, j \in DOMAIN ChildOrders(dom, models, p) :
                  i < j => ChildOrders(dom, models, p)[i] <= ChildOrders(dom, models, p)[j]
             /\ \A e \in ModelsUnder(dom, models, p) : ~models[e].val.order_changed
             /\ ModelsUnder(dom, models, p) = ModelsUnder(last.dom, last.models, p)
             /\ {dom[p][i] : i \in DOMAIN dom[p]} = {last.dom[p][i] : i \in DOMAIN last.dom[p]}
             /\ Len(dom[p]) = Len(last.dom[p])
        ELSE /\ dom[p] = last.dom[p]
             /\ \A e \in ModelsUnder(dom, models, p) : models[e] = last.models[e]

\* C20 happens: a run moved the three models of the board's svg into order,
\* behind the element that backs no model.
SvgOrderSortedWitness ==
  /\ last.op = "SvgOrderSystem::run"
  /\ Len(dom.svg_root) = 4
  /\ dom.svg_root # last.dom.svg_root
  /\ dom.svg_root[1] = -1
  /\ ChildOrders(dom, models, "svg_root") = <<ORDER_TILE, ORDER_TILE_HOVER, ORDER_TILE_LOC>>
  /\ \E e \in DOMAIN last.models : last.models[e].tag = "some" /\ ~last.models[e].val.order_changed

(***************************************************************************)
(* The selection's properties.                                             *)
(***************************************************************************)
\* the hand's tile entities marked selected, and those whose collider
\* reports a click
Selected == {e \in DOMAIN hand_entities :
               hand_entities[e].tag = "some" /\ hand_entities[e].val.selected}
HandClicked == {e \in DOMAIN hand_entities :
                  hand_entities[e].tag = "some" /\ hand_entities[e].val.clicked}
FirstClicked == CHOOSE e \in HandClicked : \A f \in HandClicked : e <= f
\* SelectedTile holding entity e's index, stored action and tile
HoldsEntity(e) ==
  selected_tile = [index |-> hand_entities[e].val.index,
                   action |-> Some(hand_entities[e].val.action),
                   tile |-> Some(hand_entities[e].val.tile)]

\* C21 as stated: at most one entity is selected; after any run in which a
\* hand tile's collider reports a click, the first clicked tile alone is
\* selected and SelectedTile holds it; a run with no such click leaves the
\* flags as they were.
SingleSelectionAnyRun ==
  /\ Cardinality(Selected) <= 1
  /\ (last.op = "SelectTileSystem::run" /\ HandClicked # {}) =>
       Selected = {FirstClicked} /\ HoldsEntity(FirstClicked)
  /\ (last.op = "SelectTileSystem::run" /\ HandClicked = {}) =>
       Selected = last.before_selected

\* C21: single selection.  At most one entity is selected in every state.
\* After a run with RunSelectTileSystem set in which a hand tile's collider
\* reports a click, the first clicked tile in the order of the join alone is
\* selected and SelectedTile holds its index, stored action and tile.  A run
\* with no such click, and any run with RunSelectTileSystem cleared, leaves
\* the flags as they were; a run with it cleared leaves SelectedTile too.
SingleSelection ==
  /\ Cardinality(Selected) <= 1
  /\ (last.op = "SelectTileSystem::run" /\ last.run /\ HandClicked # {}) =>
       Selected = {FirstClicked} /\ HoldsEntity(FirstClicked)
  /\ (last.op = "SelectTileSystem::run" /\ HandClicked = {}) =>
       Selected = last.before_selected
  /\ (last.op = "SelectTileSystem::run" /\ ~last.run) =>
       Selected = last.before_selected /\ selected_tile = last.before

\* C21 happens: both tiles of the hand are clicked in a frame while the
\* second one is selected; the first becomes the selection.
SingleSelectionWitness ==
  /\ last.op = "SelectTileSystem::run"
  /\ last.run
  /\ HandClicked = {1, 2}
  /\ last.before_selected = {2}
  /\ Selected = {1}
  /\ HoldsEntity(1)
  /\ hand_entities[1].val.tile # hand_entities[2].val.tile

\* the rotate buttons whose collider reports a click, and the turns they
\* add up to
ButtonsClicked == {c \in ColliderIds : colliders[c].clicked}
Turned == SumOver([c \in ColliderIds |-> Buttons[c].num_times], ButtonsClicked)
\* SelectedTile as it was before the run, its action turned by n
TurnedBy(n) ==
  [last.before EXCEPT !.action =
     Some([last.before.action.val EXCEPT !.val = (last.before.action.val.val + n) % EDGES])]
HadSelection == last.before.action.tag = "some" /\ last.before.tile.tag = "some"

\* C22 as stated: in any run with a tile selected and no hand tile clicked,
\* the selected action is composed with the action of each clicked rotate
\* button and the index and tile stay; with no tile selected SelectedTile
\* stays as it was.
RotateSelectionAnyRun ==
  (last.op = "SelectTileSystem::run" /\ HandClicked = {}) =>
    IF HadSelection THEN selected_tile = TurnedBy(Turned)
    ELSE selected_tile = last.before

\* C22: rotating the selection.  In a run with RunSelectTileSystem set, a
\* tile selected and no hand tile clicked, the selected action becomes the
\* action composed with the group action of each rotate button that reports
\* a click (the turns add up modulo the tile's edges), and the selected
\* index and tile stay.  With no tile selected, or with RunSelectTileSystem
\* cleared, the clicks of rotate buttons change nothing in SelectedTile.
RotateSelection ==
  /\ (last.op = "SelectTileSystem::run" /\ last.run /\ HandClicked = {}) =>
       IF HadSelection THEN selected_tile = TurnedBy(Turned)
       ELSE selected_tile = last.before
  /\ (last.op = "SelectTileSystem::run" /\ ~last.run) => selected_tile = last.before

\* C22 happens: the selected tile, turned three times, is turned once more
\* by the clockwise button and is back at the identity; another frame has
\* the counter-clockwise button alone turn a tile.
RotateSelectionWitness ==
  /\ last.op = "SelectTileSystem::run"
  /\ last.run
  /\ HandClicked = {}
  /\ HadSelection
  /\ ButtonsClicked = {2}
  /\ last.before.action.val.val = 3
  /\ selected_tile.action.val.val = identity
  /\ selected_tile.index = last.before.index
  /\ selected_tile.tile = last.before.tile

(***************************************************************************)
(* The element ids' properties.                                            *)
(***************************************************************************)
\* C23: element ids are unique.  Over any sequence of Model::new and
\* render_token calls on GameWorld's counter, which starts at 0, each call
\* is given the counter's value at the call and moves the counter on by one:
\* the k-th call is given k - 1, the values given are pairwise distinct, the
\* counter equals the number of calls made, and the elements of the models
\* alive carry distinct ids.
ElementIdsUnique ==
  /\ \A i \in DOMAIN assigned : assigned[i].value = i - 1
  /\ \A i, j \in DOMAIN assigned : i # j => assigned[i].value # assigned[j].value
  /\ game_world.id_counter = Len(assigned)
  /\ \A e, f \in DOMAIN models :
       (e # f /\ models[e] # None /\ models[f] # None) => models[e].val.id # models[f].val.id
  /\ last.op = "render_token" =>
       /\ last.svg.gradient = <<"g", assigned[Len(assigned)].value>>
       /\ last.svg.fill = last.svg.gradient

\* C23 happens: a token is rendered between two models, and the three calls
\* are given 0, 1 and 2.
ElementIdsUniqueWitness ==
  /\ Len(assigned) = 3
  /\ assigned[1].by = "Model::new"
  /\ assigned[2].by = "render_token"
  /\ assigned[3].by = "Model::new"
  /\ game_world.id_counter = 3
  /\ \E e \in DOMAIN models : models[e] # None /\ models[e].val.id = 2

====
